---- MODULE Spec2Model ----
(***************************************************************************)
(* Model of the Gestella agent: the Telegram handlers of main.py           *)
(* (handle_message, handle_voice, check_auth_status, run_agent,            *)
(* send_smart_response) and the LangGraph loop of graph.py (chatbot_node,  *)
(* should_continue, tool_node, the MemorySaver checkpointer).              *)
(*                                                                         *)
(* A handler is a coroutine: it runs without interruption from one await   *)
(* to the next, so every action below is the code between two awaits.      *)
(* handle_turn of the specification is run_agent.  Its contract lets it be *)
(* called concurrently, so a second handler may start while the first is   *)
(* suspended at an await; the runs in which Dispatch fires only when no    *)
(* handler is active are the runs of a dispatcher that awaits each handler *)
(* (python-telegram-bot's default for the Application built at             *)
(* main.py:251).                                                           *)
(***************************************************************************)
EXTENDS Integers, Sequences, FiniteSets, TLC

(* ------------------------------ bounds -------------------------------- *)

\* handlers that may be in flight at the same time
MaxTasks == 2
\* updates dispatched in one run
MaxUpdates == 2
\* minutes the wall clock may advance
MaxMinute == 1
\* voice messages among the updates of one run
MaxVoice == 1
\* conversation ids (chat ids)
NumChats == 2
\* tool calls the model may request in one response
MaxCalls == 2
\* updates dispatched in one run of the login handshake
MaxLogin == 3
\* rows the memories table may hold
MaxMemories == 3
\* supersteps one app.ainvoke may run.  run_agent passes no recursion_limit
\* (main.py:164), so LangGraph's default of 25 applies; the model scales it
\* down so that a turn can reach it.
RecursionLimit == 3

(* ------------------------- program constants -------------------------- *)

\* main.py:176 and main.py:178: the 500-character threshold of run_agent
LongReply == 500
\* main.py:139: a text longer than this is sent as a file
LongText == 2000
\* main.py:151: Telegram's message size, the chunk length
ChunkLen == 4096
\* main.py:71: a pasted text shorter than this is no authorization code
CodeMinLen == 10
\* main.py:229: a transcript longer than this is a meeting to analyze
LongTranscript == 500
\* main.py:231: len("Analyze this meeting: ")
PrefixLen == 22

Tasks == 1..MaxTasks
Chats == 1..NumChats

(* ------------------------------- texts -------------------------------- *)
(* A text is its length, whether it holds a markdown heading ("###" or     *)
(* "# Executive Summary", main.py:138), and who wrote it: the chat and the *)
(* turn it was produced in (turn 0: a string of the program itself).       *)

Text(n, md, c, k) == [len |-> n, notes |-> md, chat |-> c, turn |-> k]

\* "Error: Agent failed to respond."  (main.py:173)
NoResponseText == Text(31, FALSE, 0, 0)
\* f"Error: {e}"  (main.py:183)
ExceptionText == Text(60, FALSE, 0, 0)

\* graph.py:65: the persona text has about this many characters
PersonaLen == 589
PersonaText == Text(PersonaLen, FALSE, 0, 0)

\* what the model may answer with, and what a tool may return
FinalShapes == {<<0, FALSE>>, <<5, FALSE>>, <<600, FALSE>>}
ToolShapes == {<<400, TRUE>>, <<5000, FALSE>>}
\* the texts a user may type: one as long as an authorization code, and in
\* reply to the login prompt also a shorter one
CodeLens == {5, 12}
ChatLens == {12}
\* the transcripts of the voice messages a user may send
VoiceLens == {12, 600}

(* ------------------------------ messages ------------------------------ *)

HumanMessage(txt) == [type |-> "human", content |-> txt, calls |-> 0, id |-> 0, call |-> 0]
\* an AIMessage: its tool_calls have the ids <<turn, id, 1>> .. <<turn, id, calls>>
AIMessage(txt, n, step) == [type |-> "ai", content |-> txt, calls |-> n, id |-> step, call |-> 0]
\* a ToolMessage answering tool call <<turn, step, i>>
ToolMessage(txt, step, i) == [type |-> "tool", content |-> txt, calls |-> 0, id |-> step, call |-> i]
\* the persona built at minute `at` (it carries the current time, graph.py:61-79)
SystemMessage(txt, at) == [type |-> "system", content |-> txt, calls |-> 0, id |-> at, call |-> 0]

isHuman(m) == m.type = "human"
Last(ms) == ms[Len(ms)]
isSystem(m) == m.type = "system"

\* (mutant) the channel "messages" without its reducer: an update replaces
\* the list.
replace_messages(left, right) == right

\* AgentState, graph.py:48-49: "messages" is reduced by add_messages, which
\* appends the messages of an update (each has a new id) to the list.
add_messages(left, right) == left \o right

VARIABLES
    pc,       \* pc[t]: where handler t is suspended ("idle": no handler)
    upd,      \* upd[t]: the update handler t is handling
    msgs,     \* msgs[t]: the graph state (channel "messages") of t's ainvoke
    steps,    \* steps[t]: supersteps t's ainvoke has run
    tries,    \* tries[t]: model calls chatbot_node made in t's latest agent step
    sent,     \* sent[t]: the messages of t's model call under way (<<>>: none)
    ret,      \* ret[t]: what run_agent returned
    out,      \* out[t]: what the handler delivered to the chat
    fname,    \* fname[t]: the minute in the name of t's report file
    reports,  \* reports[m]: the content of Meeting_Minutes_<m>.md, or Absent
    tempAudio,  \* the audio in temp_audio.ogg (NoUpdate: no such file)
    token,    \* whether token.json exists
    creds,    \* whether credentials.json exists
    AUTH_STATE,  \* the users recorded as "WAITING_FOR_CODE"
    store,    \* store[c]: MemorySaver's latest checkpoint of thread c
    ran,      \* ran[c]: how often the handler of tool call c was run
    memories, \* the rows of the table "memories" (database.py:76)
    found,    \* the latest search of the memories and what it returned
    nupd,     \* updates dispatched so far; the turn number of the latest
    nvoice,   \* voice messages among them
    now       \* the wall clock, in minutes

vars == <<pc, upd, msgs, sent, steps, tries, ret, out, fname, reports, tempAudio, token, creds,
          AUTH_STATE, store, ran, memories, found, nupd, nvoice, now>>

\* no search of the memories has been made
NoSearch == [user |-> "", query |-> "", via |-> "none", result |-> [kind |-> "none", rows |-> {}]]

NoText == Text(0, FALSE, 0, 0)
\* An update: a text message of `len` characters, or a voice message whose
\* transcription has `len` characters and whose file is over 20 MB or not;
\* `text` is the user_text its handler hands to run_agent.
NoUpdate == [chat |-> 0, kind |-> "none", len |-> 0, big |-> FALSE, turn |-> 0, text |-> NoText]
None == [kind |-> "none", text |-> NoText]
Absent == [kind |-> "absent", text |-> NoText]
File(txt) == [kind |-> "file", text |-> txt]
Minutes == 0..MaxMinute

Init ==
    /\ pc = [t \in Tasks |-> "idle"]
    /\ upd = [t \in Tasks |-> NoUpdate]
    /\ msgs = [t \in Tasks |-> <<>>]
    /\ sent = [t \in Tasks |-> <<>>]
    /\ steps = [t \in Tasks |-> 0]
    /\ tries = [t \in Tasks |-> 0]
    /\ ret = [t \in Tasks |-> None]
    /\ out = [t \in Tasks |-> None]
    /\ fname = [t \in Tasks |-> 0]
    /\ reports = [m \in Minutes |-> Absent]
    /\ tempAudio = NoUpdate
    \* token.json may be left from an earlier run; it was then written by an
    \* exchange that read credentials.json (main.py:79-91)
    /\ token \in BOOLEAN
    /\ creds \in BOOLEAN
    /\ token => creds
    /\ AUTH_STATE = {}
    /\ store = [c \in Chats |-> <<>>]
    /\ ran = <<>>
    /\ memories = {}
    /\ found = NoSearch
    /\ nupd = 0
    /\ nvoice = 0
    /\ now = 0

(* ------------------------- graph.py: the graph ------------------------ *)

\* (mutant) the gatekeeper lets every update through.
no_auth_check(u) == "authorized"

\* (mutant) chatbot_node keeps the persona it prepends in the graph state.
PersonaKeptInState(state, at) ==
    IF isSystem(state[1])
    THEN [state EXCEPT ![1] = SystemMessage(PersonaText, at)]
    ELSE <<SystemMessage(PersonaText, at)>> \o state

\* chatbot_node, graph.py:79-86: the state with the persona at its head.  A
\* SystemMessage already at index 0 is overwritten in place (the state list
\* itself is changed), otherwise the persona is prepended to a new list.
PersonaInState(state, at) ==
    IF isSystem(state[1])
    THEN [state EXCEPT ![1] = SystemMessage(PersonaText, at)]
    ELSE state

\* (mutant) the model is handed state["messages"], without the persona.
StateAsModelInput(state, at) == state

\* chatbot_node, graph.py:82-86: the messages handed to the model
ModelInput(state, at) ==
    IF isSystem(state[1])
    THEN PersonaInState(state, at)
    ELSE <<SystemMessage(PersonaText, at)>> \o state

\* The chat-completions endpoint behind llm_with_tools.ainvoke (graph.py:89)
\* rejects a history in which an assistant message with tool_calls is not
\* followed at once by one tool message per call, or a tool message answers
\* no such request.
Answered(ms, i) ==
    /\ i + ms[i].calls <= Len(ms)
    /\ \A j \in 1..ms[i].calls :
          /\ ms[i + j].type = "tool"
          /\ ms[i + j].id = ms[i].id
          /\ ms[i + j].call = j
          /\ ms[i + j].content.turn = ms[i].content.turn

Requested(ms, i) ==
    /\ i - ms[i].call >= 1
    /\ ms[i - ms[i].call].type = "ai"
    /\ ms[i - ms[i].call].calls >= ms[i].call
    /\ ms[i - ms[i].call].id = ms[i].id
    /\ ms[i - ms[i].call].content.turn = ms[i].content.turn

Acceptable(ms) ==
    \A i \in 1..Len(ms) :
        /\ (ms[i].type = "ai" /\ ms[i].calls > 0) => Answered(ms, i)
        /\ ms[i].type = "tool" => Requested(ms, i)

\* (mutant) the conditional edge always ends the graph.
never_continue(state) == "__end__"

\* should_continue, graph.py:95-99
should_continue(state) ==
    IF state[Len(state)].calls > 0 THEN "tools" ELSE "__end__"

(* ------------------------ main.py: run_agent -------------------------- *)

\* main.py:177-180: the first message from the end that is no HumanMessage
\* and is longer than 500 characters (0: there is none)
LastLong(messages) ==
    LET S == {i \in 1..Len(messages) :
                 ~isHuman(messages[i]) /\ messages[i].content.len > LongReply}
    IN IF S = {} THEN 0 ELSE CHOOSE i \in S : \A j \in S : j <= i

\* main.py:170-181: what run_agent picks out of the final state
SelectResponse(messages) ==
    IF messages = <<>> \/ isHuman(messages[Len(messages)])
    THEN NoResponseText
    ELSE LET final == messages[Len(messages)].content
         IN IF final.len < LongReply /\ LastLong(messages) # 0
            THEN messages[LastLong(messages)].content
            ELSE final

Returned(txt) == [kind |-> "text", text |-> txt]
Raised == [kind |-> "raise", text |-> NoText]

\* (mutant) every turn runs on one and the same thread.
OneThread(u) == 1

\* the thread id of a turn: config = {"thread_id": str(chat_id)}, main.py:164
ThreadOf(u) == u.chat

(* ----------------------- the model and the tools --------------------- *)

\* What llm_with_tools.ainvoke may return in superstep `step` of the turn of
\* update u: a final answer, or a request of 1..MaxCalls tool calls (its
\* content is empty, as it is for the chat-completions models).
Responses(u, step) ==
    {AIMessage(Text(sh[1], sh[2], u.chat, u.turn), 0, step) : sh \in FinalShapes}
    \cup {AIMessage(Text(0, FALSE, u.chat, u.turn), k, step) : k \in 1..MaxCalls}

\* the tool calls of the request req of the turn of update u
Calls(u, req) == {<<u.turn, req.id, i>> : i \in 1..req.calls}

\* (mutant) tool_node runs a handler a second time.
invoke_twice(done, calls) ==
    [c \in DOMAIN done \cup calls |->
        (IF c \in DOMAIN done THEN done[c] ELSE 0) + (IF c \in calls THEN 2 ELSE 0)]

\* tool_node (graph.py:93, added to the graph without a retry policy,
\* graph.py:103) invokes the handler of every tool call of the request once,
\* and a handler does its work once (tools/memory.py:11, database.py:76).
invoke(done, calls) ==
    [c \in DOMAIN done \cup calls |->
        (IF c \in DOMAIN done THEN done[c] ELSE 0) + (IF c \in calls THEN 1 ELSE 0)]

\* What tool_node may add for the request req: one ToolMessage per call, in
\* the order of the calls, each tagged with the id of its call.
ToolResults(u, req) ==
    {[i \in 1..req.calls |-> ToolMessage(Text(f[i][1], f[i][2], u.chat, u.turn), req.id, i)] :
        f \in [1..req.calls -> ToolShapes]}


(* --------------------------- the updates ------------------------------ *)

TextUpdate(c, n, k) ==
    [chat |-> c, kind |-> "text", len |-> n, big |-> FALSE, turn |-> k,
     text |-> Text(n, FALSE, c, k)]
VoiceUpdate(c, n, b, k) ==
    [chat |-> c, kind |-> "voice", len |-> n, big |-> b, turn |-> k, text |-> NoText]

\* The updates that may arrive next.  Chat ids are interchangeable, so the
\* first update of a run comes from chat 1.  In a private chat the user id
\* is the chat id.
Updates ==
    LET cs == IF nupd = 0 THEN {1} ELSE Chats
    IN UNION {{TextUpdate(c, n, nupd + 1) :
                   n \in (IF c \in AUTH_STATE THEN CodeLens ELSE ChatLens)} : c \in cs}
       \cup (IF nvoice < MaxVoice
             THEN {VoiceUpdate(c, n, FALSE, nupd + 1) : c \in cs, n \in VoiceLens}
                  \cup {VoiceUpdate(c, 12, TRUE, nupd + 1) : c \in cs}
             ELSE {})

(* --------------------- main.py: check_auth_status --------------------- *)

\* main.py:60-132, up to the first await: what the gatekeeper does with
\* update u.  A voice message has no text, so .strip() (main.py:68) raises.
check_auth_status(u) ==
    IF token THEN "authorized"
    ELSE IF u.chat \in AUTH_STATE
    THEN IF u.kind # "text" THEN "raise"
         ELSE IF u.len < CodeMinLen THEN "not_a_code"
         ELSE "verify"
    ELSE IF creds THEN "prompt" ELSE "no_credentials"

(* ------------------------------ actions ------------------------------- *)

Delivered(k, txt) == [kind |-> k, text |-> txt]

\* The gatekeeper returned True (main.py:193-199, 208-225): a text goes to
\* run_agent, which awaits send_chat_action (main.py:166); a voice message
\* over 20 MB is refused, any other is downloaded.
Proceed(t, u) ==
    IF u.kind = "text"
    THEN /\ pc' = [pc EXCEPT ![t] = "typing"]
         /\ out' = out
    ELSE IF u.big
    THEN /\ pc' = [pc EXCEPT ![t] = "done"]
         /\ out' = [out EXCEPT ![t] = Delivered("too_large", NoText)]
    ELSE /\ pc' = [pc EXCEPT ![t] = "download"]
         /\ out' = out

\* The gatekeeper returned False after telling the user why (main.py:194-195).
Refuse(t, why) ==
    /\ pc' = [pc EXCEPT ![t] = "done"]
    /\ out' = [out EXCEPT ![t] = Delivered(why, NoText)]

\* handle_message and handle_voice from their start to their first await
\* (main.py:186-199, 204-225).
Handle(t, u) ==
    /\ upd' = [upd EXCEPT ![t] = u]
    /\ nupd' = nupd + 1
    /\ nvoice' = IF u.kind = "voice" THEN nvoice + 1 ELSE nvoice
    /\ CASE check_auth_status(u) = "authorized" ->
              Proceed(t, u) /\ UNCHANGED AUTH_STATE
         [] check_auth_status(u) = "raise" ->
              /\ pc' = [pc EXCEPT ![t] = "done"]
              /\ UNCHANGED <<out, AUTH_STATE>>
         [] check_auth_status(u) = "not_a_code" ->
              Refuse(t, "not_a_code") /\ UNCHANGED AUTH_STATE
         [] check_auth_status(u) = "verify" ->
              /\ pc' = [pc EXCEPT ![t] = "verifying"]
              /\ UNCHANGED <<out, AUTH_STATE>>
         [] check_auth_status(u) = "prompt" ->
              /\ AUTH_STATE' = AUTH_STATE \cup {u.chat}
              /\ Refuse(t, "login_prompt")
         [] check_auth_status(u) = "no_credentials" ->
              Refuse(t, "no_credentials") /\ UNCHANGED AUTH_STATE
    /\ UNCHANGED <<memories, found, tries, ran, msgs, sent, steps, ret, fname, reports, tempAudio, token, creds, store, now>>

\* An update arrives while no handler runs: the Application built at
\* main.py:251 awaits each handler before it takes the next update.
Dispatch(t) ==
    /\ \A s \in Tasks : pc[s] = "idle"
    /\ t = 1
    /\ nupd < MaxUpdates
    /\ \E u \in Updates : Handle(t, u)

\* An update arrives and its handler starts while others are suspended.  Task
\* slots are interchangeable: the handler takes the lowest free one.
DispatchConcurrently(t) ==
    /\ pc[t] = "idle"
    /\ \A s \in Tasks : s < t => pc[s] # "idle"
    /\ nupd < MaxUpdates
    /\ \E u \in Updates : Handle(t, u)

\* main.py:87-98: the code is exchanged, token.json is written, the user's
\* AUTH_STATE entry is deleted, the user is told of the success and the
\* gatekeeper returns True, so that handle_message goes on to run_agent with
\* the text of the update (main.py:199); the KeyError of an entry that is
\* gone is caught like every other failure (main.py:100).
VerifyOk(t) ==
    /\ pc[t] = "verifying"
    /\ token' = TRUE
    /\ IF upd[t].chat \in AUTH_STATE
       THEN /\ AUTH_STATE' = AUTH_STATE \ {upd[t].chat}
            /\ pc' = [pc EXCEPT ![t] = "typing"]
            /\ out' = [out EXCEPT ![t] = Delivered("connected", NoText)]
       ELSE /\ AUTH_STATE' = AUTH_STATE
            /\ Refuse(t, "auth_failed")
    /\ UNCHANGED <<memories, found, tries, ran, upd, msgs, sent, steps, ret, fname, reports, tempAudio, creds, store, nupd, nvoice, now>>

\* main.py:100-103: the exchange failed.
VerifyFails(t) ==
    /\ pc[t] = "verifying"
    /\ Refuse(t, "auth_failed")
    /\ UNCHANGED <<memories, found, tries, ran, upd, msgs, sent, steps, ret, fname, reports, tempAudio, token, creds,
                   AUTH_STATE, store, nupd, nvoice, now>>

\* transcribe_voice, main.py:157-161: the text of the audio in the file
Transcribe(audio) == Text(audio.len, FALSE, audio.chat, audio.turn)

\* main.py:229-234: the user_text made of a transcript
InputText(transcript) ==
    IF transcript.len > LongTranscript
    THEN [transcript EXCEPT !.len = transcript.len + PrefixLen]
    ELSE transcript

\* main.py:222-234: the download ends by writing temp_audio.ogg, which is
\* transcribed at once; run_agent then awaits send_chat_action.
Download(t) ==
    /\ pc[t] = "download"
    /\ tempAudio' = upd[t]
    /\ upd' = [upd EXCEPT ![t].text = InputText(Transcribe(tempAudio'))]
    /\ pc' = [pc EXCEPT ![t] = "typing"]
    /\ UNCHANGED <<memories, found, tries, ran, msgs, sent, steps, ret, out, fname, reports, token, creds, AUTH_STATE,
                   store, nupd, nvoice, now>>

\* An exception inside the try of a handler (main.py:201-202, 239-240):
\* handle_message prints it, handle_voice awaits sending it to the chat
\* before it removes the audio file.
Excepts(t) ==
    IF upd[t].kind = "voice"
    THEN /\ pc' = [pc EXCEPT ![t] = "cleanup"]
         /\ out' = [out EXCEPT ![t] = Delivered("error", NoText)]
    ELSE /\ pc' = [pc EXCEPT ![t] = "done"]
         /\ out' = out

\* The try of a handler ends (main.py:200, 237, 242): handle_voice removes
\* the audio file, whoever wrote it.
Ends(t) ==
    /\ pc' = [pc EXCEPT ![t] = "done"]
    /\ tempAudio' = IF upd[t].kind = "voice" THEN NoUpdate ELSE tempAudio

\* The download fails after file_path is set (main.py:225).
DownloadFails(t) ==
    /\ pc[t] = "download"
    /\ Excepts(t)
    /\ UNCHANGED <<memories, found, tries, ran, upd, msgs, sent, steps, ret, fname, reports, tempAudio, token, creds,
                   AUTH_STATE, store, nupd, nvoice, now>>

\* main.py:242, after the error message of main.py:240
Cleanup(t) ==
    /\ pc[t] = "cleanup"
    /\ Ends(t)
    /\ UNCHANGED <<memories, found, tries, ran, upd, msgs, sent, steps, ret, out, fname, reports, token, creds,
                   AUTH_STATE, store, nupd, nvoice, now>>

\* send_chat_action failed: the exception leaves run_agent, which awaits it
\* outside its try (main.py:166), and the handler catches it.
TypingFails(t) ==
    /\ pc[t] = "typing"
    /\ ret' = [ret EXCEPT ![t] = Raised]
    /\ Excepts(t)
    /\ UNCHANGED <<memories, found, tries, ran, upd, msgs, sent, steps, fname, reports, tempAudio, token, creds,
                   AUTH_STATE, store, nupd, nvoice, now>>

\* send_chat_action returned and app.ainvoke starts (main.py:169): the latest
\* checkpoint of the thread is loaded, the input is added to "messages"
\* (add_messages) and checkpointed, and chatbot_node runs up to its await of
\* the model (graph.py:89), to which it hands the persona it has just built
\* followed by the messages of its state (graph.py:61-86).
Invoke(t) ==
    /\ pc[t] = "typing"
    /\ LET c == ThreadOf(upd[t])
           state == add_messages(store[c], <<HumanMessage(upd[t].text)>>)
       IN /\ msgs' = [msgs EXCEPT ![t] = state]
          /\ store' = [store EXCEPT ![c] = state]
          /\ sent' = [sent EXCEPT ![t] = ModelInput(state, now)]
    /\ tries' = [tries EXCEPT ![t] = 1]
    /\ steps' = [steps EXCEPT ![t] = 0]
    /\ pc' = [pc EXCEPT ![t] = "llm"]
    /\ UNCHANGED <<memories, found, ran, upd, ret, out, fname, reports, tempAudio, token, creds, AUTH_STATE,
                   nupd, nvoice, now>>

\* An exception leaves app.ainvoke and run_agent returns f"Error: {e}"
\* (main.py:182-183).
GraphRaises(t) ==
    /\ ret' = [ret EXCEPT ![t] = Returned(ExceptionText)]
    /\ pc' = [pc EXCEPT ![t] = "returned"]

\* (mutant) the graph runs without a recursion limit.
AfterStepUnbounded(t, state, n, next) ==
    IF next = "__end__"
    THEN /\ ret' = [ret EXCEPT ![t] = Returned(SelectResponse(state))]
         /\ pc' = [pc EXCEPT ![t] = "returned"]
    ELSE /\ pc' = [pc EXCEPT ![t] = next]
         /\ ret' = ret

\* After a superstep: the graph ends and run_agent selects its answer, or the
\* next node is due, which needs a superstep the recursion limit still allows
\* (GraphRecursionError otherwise).
AfterStep(t, state, n, next) ==
    IF next = "__end__"
    THEN /\ ret' = [ret EXCEPT ![t] = Returned(SelectResponse(state))]
         /\ pc' = [pc EXCEPT ![t] = "returned"]
    ELSE IF n >= RecursionLimit
    THEN GraphRaises(t)
    ELSE /\ pc' = [pc EXCEPT ![t] = next]
         /\ ret' = ret

\* The model call of chatbot_node fails (graph.py:89): always when the
\* history is one the endpoint rejects, and whenever the service is down.
\* chatbot_node makes the call once: the exception leaves it, the graph and
\* app.ainvoke, and run_agent returns its text (main.py:182-183).
LlmFails(t) ==
    /\ pc[t] = "llm"
    /\ GraphRaises(t)
    /\ sent' = [sent EXCEPT ![t] = <<>>]
    /\ UNCHANGED <<memories, found, tries, ran, upd, msgs, steps, out, fname, reports, tempAudio, token, creds,
                   AUTH_STATE, store, nupd, nvoice, now>>

\* The model answers (graph.py:89-91): the response is added to "messages",
\* the superstep is checkpointed and should_continue routes (graph.py:105).
LlmReturns(t) ==
    /\ pc[t] = "llm"
    /\ Acceptable(msgs[t])
    /\ \E r \in Responses(upd[t], steps[t] + 1) :
          LET state == add_messages(PersonaInState(msgs[t], now), <<r>>)
          IN /\ msgs' = [msgs EXCEPT ![t] = state]
             /\ store' = [store EXCEPT ![ThreadOf(upd[t])] = state]
             /\ steps' = [steps EXCEPT ![t] = steps[t] + 1]
             /\ AfterStep(t, state, steps[t] + 1, should_continue(state))
             /\ sent' = [sent EXCEPT ![t] = <<>>]
    /\ UNCHANGED <<memories, found, tries, ran, upd, out, fname, reports, tempAudio, token, creds, AUTH_STATE,
                   nupd, nvoice, now>>

\* tool_node (graph.py:93, 106): every tool call of the last message is run
\* and answered by one ToolMessage, in the order of the calls; then the edge
\* back to the agent is followed.
ToolsReturn(t) ==
    /\ pc[t] = "tools"
    /\ \E rs \in ToolResults(upd[t], msgs[t][Len(msgs[t])]) :
          LET state == add_messages(msgs[t], rs)
          IN /\ msgs' = [msgs EXCEPT ![t] = state]
             /\ store' = [store EXCEPT ![ThreadOf(upd[t])] = state]
             /\ steps' = [steps EXCEPT ![t] = steps[t] + 1]
             /\ AfterStep(t, state, steps[t] + 1, "llm")
             /\ ran' = invoke(ran, Calls(upd[t], Last(msgs[t])))
             /\ sent' = [sent EXCEPT ![t] =
                   IF pc'[t] = "llm" THEN ModelInput(state, now) ELSE <<>>]
             /\ tries' = [tries EXCEPT ![t] = IF pc'[t] = "llm" THEN 1 ELSE tries[t]]
    /\ UNCHANGED <<memories, found, upd, out, fname, reports, tempAudio, token, creds, AUTH_STATE,
                   nupd, nvoice, now>>

\* A tool raises and tool_node lets the exception through.  The handlers
\* catch what their service raises and return it as a text (calendar.py:63-64
\* and 88-89, database.py:78-79 and 91-92), which is a result like any other
\* for ToolsReturn; get_embedding is called outside those handlers
\* (database.py:68, 83), and what ToolNode(tools_list) does with an exception
\* is left to the library's default (graph.py:93), which passes on any
\* exception that is not about the arguments of the call.  No ToolMessage is
\* added then, for the failing call or any other call of the request, all of
\* which were started together.
ToolsFail(t) ==
    /\ pc[t] = "tools"
    /\ GraphRaises(t)
    /\ ran' = invoke(ran, Calls(upd[t], Last(msgs[t])))
    /\ UNCHANGED <<memories, found, tries, upd, msgs, sent, steps, out, fname, reports, tempAudio, token, creds,
                   AUTH_STATE, store, nupd, nvoice, now>>

(* ------------------- main.py: send_smart_response --------------------- *)

is_meeting_notes(text) == text.notes
is_long(text) == text.len > LongText

\* main.py:136-145 and 150-155: nothing is sent for an empty text; a text with
\* a heading or longer than 2000 characters is written to the report file
\* named after the current minute, and the handler awaits the announcement
\* (main.py:146); any other text is sent as it is, in chunks of 4096.
Send(t) ==
    /\ pc[t] = "returned"
    /\ IF ret[t].text.len = 0
       THEN /\ Ends(t)
            /\ UNCHANGED <<out, fname, reports>>
       ELSE IF is_meeting_notes(ret[t].text) \/ is_long(ret[t].text)
       THEN /\ reports' = [reports EXCEPT ![now] = File(ret[t].text)]
            /\ fname' = [fname EXCEPT ![t] = now]
            /\ pc' = [pc EXCEPT ![t] = "report"]
            /\ UNCHANGED <<out, tempAudio>>
       ELSE /\ out' = [out EXCEPT ![t] =
                  Delivered(IF ret[t].text.len > ChunkLen THEN "chunks" ELSE "message",
                            ret[t].text)]
            /\ Ends(t)
            /\ UNCHANGED <<fname, reports>>
    /\ UNCHANGED <<memories, found, tries, ran, upd, msgs, sent, steps, ret, token, creds, AUTH_STATE, store, nupd, nvoice, now>>

\* main.py:147-148: the report file is opened and read, and the handler
\* awaits send_document; FileNotFoundError is an exception of the handler.
SendDocument(t) ==
    /\ pc[t] = "report"
    /\ IF reports[fname[t]] = Absent
       THEN Excepts(t)
       ELSE /\ out' = [out EXCEPT ![t] = Delivered("document", reports[fname[t]].text)]
            /\ pc' = [pc EXCEPT ![t] = "document"]
    /\ UNCHANGED <<memories, found, tries, ran, upd, msgs, sent, steps, ret, fname, reports, tempAudio, token, creds,
                   AUTH_STATE, store, nupd, nvoice, now>>

\* main.py:149: os.remove(filename); FileNotFoundError is an exception of the
\* handler.
RemoveReport(t) ==
    /\ pc[t] = "document"
    /\ IF reports[fname[t]] = Absent
       THEN /\ Excepts(t)
            /\ UNCHANGED <<reports, tempAudio>>
       ELSE /\ reports' = [reports EXCEPT ![fname[t]] = Absent]
            /\ Ends(t)
            /\ out' = out
    /\ UNCHANGED <<memories, found, tries, ran, upd, msgs, sent, steps, ret, fname, token, creds, AUTH_STATE, store, nupd, nvoice, now>>

\* The handler returns.
Finish(t) ==
    /\ pc[t] = "done"
    /\ pc' = [pc EXCEPT ![t] = "idle"]
    /\ upd' = [upd EXCEPT ![t] = NoUpdate]
    /\ msgs' = [msgs EXCEPT ![t] = <<>>]
    /\ steps' = [steps EXCEPT ![t] = 0]
    /\ tries' = [tries EXCEPT ![t] = 0]
    /\ ret' = [ret EXCEPT ![t] = None]
    /\ out' = [out EXCEPT ![t] = None]
    /\ fname' = [fname EXCEPT ![t] = 0]
    /\ UNCHANGED <<memories, found, ran, sent, reports, tempAudio, token, creds, AUTH_STATE, store, nupd, nvoice, now>>

\* A minute passes.  The clock is read only to date the persona, which is
\* not kept, and to name the report files, so the minutes are counted from
\* the first report file on.
Tick ==
    /\ now < MaxMinute
    /\ \E m \in Minutes : reports[m] # Absent
    /\ now' = now + 1
    /\ UNCHANGED <<memories, found, tries, ran, pc, upd, msgs, sent, steps, ret, out, fname, reports, tempAudio, token,
                   creds, AUTH_STATE, store, nupd, nvoice>>

Step(t) ==
    \/ VerifyOk(t)
    \/ VerifyFails(t)
    \/ Download(t)
    \/ DownloadFails(t)
    \/ Cleanup(t)
    \/ TypingFails(t)
    \/ Invoke(t)
    \/ LlmFails(t)
    \/ LlmReturns(t)
    \/ ToolsReturn(t)
    \/ ToolsFail(t)
    \/ Send(t)
    \/ SendDocument(t)
    \/ RemoveReport(t)
    \/ Finish(t)

\* The program as it is built: one handler at a time.
Next ==
    \/ \E t \in Tasks : Dispatch(t)
    \/ \E t \in Tasks : Step(t)
    \/ Tick

Spec == Init /\ [][Next]_vars

\* handle_turn called concurrently, as its contract allows.
NextConcurrent ==
    \/ \E t \in Tasks : DispatchConcurrently(t)
    \/ \E t \in Tasks : Step(t)
    \/ Tick

SpecConcurrent == Init /\ [][NextConcurrent]_vars

\* The login handshake: the updates that arrive, one handler at a time, as
\* long as token.json does not exist.  No voice message is downloaded then
\* (main.py:208-210), and the message whose code is exchanged is the last.
DispatchLogin(t) ==
    /\ \A s \in Tasks : pc[s] = "idle"
    /\ t = 1
    /\ nupd < MaxLogin
    /\ ~token
    /\ \E u \in Updates : Handle(t, u)

StepLogin(t) ==
    \/ VerifyOk(t)
    \/ VerifyFails(t)
    \/ TypingFails(t)
    \/ Invoke(t)
    \/ LlmFails(t)
    \/ LlmReturns(t)
    \/ ToolsReturn(t)
    \/ ToolsFail(t)
    \/ Send(t)
    \/ SendDocument(t)
    \/ RemoveReport(t)
    \/ Finish(t)

NextLogin ==
    \/ \E t \in Tasks : DispatchLogin(t)
    \/ \E t \in Tasks : StepLogin(t)
    \/ Tick

SpecLogin == Init /\ [][NextLogin]_vars

(* ---------- the memory tools: tools/memory.py, memory.py, database.py -- *)
(* A text is the subject it is about; the embedding of a text is close to   *)
(* the embeddings of the texts about the same subject.                      *)

Users == {"1", "2"}
Subjects == {"budget", "trip"}
\* memory.py:9: the user_id of a memory saved without one
DefaultUser == "telegram_user"
\* database.py:81: match_threshold: float = 0.1
DefaultThreshold == "0.1"
Row(user_id, text) == [user_id |-> user_id, content |-> text]
Rows(texts) == [kind |-> "rows", rows |-> texts]
NoneFound == [kind |-> "no_relevant_memories", rows |-> {}]
SearchError == [kind |-> "error", rows |-> {}]

\* database.py:66-79: save_memory inserts one row
db_save(table, user_id, text) == table \cup {Row(user_id, text)}

\* The call of "match_memories" (database.py:85-88): it is given the
\* embedding of the query, the threshold and a count larger than the table
\* of the model, and nothing that names a user.
match_memories(table, query, threshold) ==
    {r \in table : r.content = query}

\* database.py:81-92: search_memory(query, match_threshold).  A threshold that
\* is no number makes the call fail, and the failure is returned as a text.
db_search(table, query, threshold) ==
    IF threshold # DefaultThreshold
    THEN SearchError
    ELSE LET data == match_memories(table, query, threshold)
             results == {r.content : r \in data}
         IN IF results # {}
            THEN Rows(results)
            ELSE NoneFound

\* tools/memory.py:13-20: db_search(user_id, query), so that the user_id is
\* the text searched for and the query is the threshold
search_memory(table, query, user_id) == db_search(table, user_id, query)

\* memory.py:18-24: db_search(query)
flat_search_memory(table, query) == db_search(table, query, DefaultThreshold)

agent == <<pc, upd, msgs, sent, steps, tries, ret, out, fname, reports, tempAudio,
           token, creds, AUTH_STATE, store, ran, nupd, nvoice, now>>

\* the tool save_memory of tools/memory.py:5-11, called for user u
SaveMemory(u, text) ==
    /\ Cardinality(memories) < MaxMemories
    /\ memories' = db_save(memories, u, text)
    /\ found' = NoSearch
    /\ UNCHANGED agent

\* the tool save_memory of memory.py:8-16: the user_id is the one the model
\* gives, or the default
SaveMemoryFlat(user_id, text) ==
    /\ Cardinality(memories) < MaxMemories
    /\ memories' = db_save(memories, user_id, text)
    /\ found' = NoSearch
    /\ UNCHANGED agent

\* the tool search_memory of tools/memory.py:13-20, called for user u
SearchMemory(u, query) ==
    /\ found' = [user |-> u, query |-> query, via |-> "tools",
                 result |-> search_memory(memories, query, u)]
    /\ UNCHANGED <<memories, agent>>

\* the tool search_memory of memory.py:18-24, called in a turn of user u
SearchMemoryFlat(u, query) ==
    /\ found' = [user |-> u, query |-> query, via |-> "flat",
                 result |-> flat_search_memory(memories, query)]
    /\ UNCHANGED <<memories, agent>>

\* The memory tools as the tool step calls them (graph.py:19 or graph.py:25,
\* whichever import succeeds), with the arguments the model may give.
NextMemory ==
    \/ \E u \in Users, text \in Subjects : SaveMemory(u, text)
    \/ \E u \in Users \cup {DefaultUser}, text \in Subjects : SaveMemoryFlat(u, text)
    \/ \E u \in Users, q \in Subjects : SearchMemory(u, q)
    \/ \E u \in Users, q \in Subjects : SearchMemoryFlat(u, q)

SpecMemory == Init /\ [][NextMemory]_vars

(* ======================= the claims, C1 to C10 ======================== *)

\* app.ainvoke of handler t has returned its final state: the graph ended
\* on a model response without tool calls.
Completed(t) ==
    /\ pc[t] = "returned"
    /\ msgs[t] # <<>>
    /\ Last(msgs[t]).type = "ai"
    /\ Last(msgs[t]).calls = 0
    /\ Last(msgs[t]).content.turn = upd[t].turn

\* the non-empty texts the model and the tools produced in the turn of t
Produced(t) ==
    {msgs[t][i].content : i \in {j \in 1..Len(msgs[t]) :
        /\ ~isHuman(msgs[t][j])
        /\ msgs[t][j].content.turn = upd[t].turn
        /\ msgs[t][j].content.len > 0}}

ToolTexts(t) ==
    {msgs[t][i].content : i \in {j \in 1..Len(msgs[t]) :
        /\ msgs[t][j].type = "tool"
        /\ msgs[t][j].content.turn = upd[t].turn
        /\ msgs[t][j].content.len > 0}}

Longest(S, txt) == txt \in S /\ \A x \in S : x.len <= txt.len

\* C1: the text run_agent returns for a turn is the longest non-empty text the
\* model and the tools produced in that turn.
C1_LongestWins ==
    \A t \in Tasks :
        (Completed(t) /\ Produced(t) # {}) =>
            (ret[t].kind = "text" /\ Longest(Produced(t), ret[t].text))

\* C2: the text run_agent returns for a turn is the content of a message
\* produced in that same turn, never one of an earlier turn.
C2_AnswerOfThisTurn ==
    \A t \in Tasks :
        Completed(t) => (ret[t].kind = "text" /\ ret[t].text.turn = upd[t].turn)

\* C3: run_agent never returns the user's own input, and when the model and
\* the tools produced no non-empty text it returns an explicit failure text
\* (a non-empty string of the program), not an empty answer or nothing.
C3_NoEcho ==
    \A t \in Tasks :
        /\ (pc[t] = "returned" /\ ret[t].kind = "text" /\ ret[t].text.len > 0) =>
              ret[t].text # upd[t].text
        /\ (Completed(t) /\ Produced(t) = {}) =>
              (ret[t].kind = "text" /\ ret[t].text.turn = 0 /\ ret[t].text.len > 0)

\* the model asked for tools in every response of the turn of t
AlwaysTools(t) ==
    \A i \in 1..Len(msgs[t]) :
        (msgs[t][i].type = "ai" /\ msgs[t][i].content.turn = upd[t].turn) =>
            msgs[t][i].calls > 0

\* C4: a turn runs at most RecursionLimit model and tool steps: once that many
\* have run, app.ainvoke is no longer waiting for the model or a tool and
\* run_agent has returned.
C4_LoopTerminates ==
    \A t \in Tasks :
        /\ steps[t] <= RecursionLimit
        /\ pc[t] \in {"llm", "tools"} => steps[t] < RecursionLimit
        /\ (steps[t] = RecursionLimit /\ pc[t] = "returned") => ret[t].kind = "text"

\* C4, witness: a model that asked for tools in every response was stopped at
\* the step limit and run_agent returned.
C4_Witness ==
    \E t \in Tasks :
        /\ pc[t] = "returned"
        /\ steps[t] = RecursionLimit
        /\ AlwaysTools(t)
        /\ ret[t].kind = "text"

\* the turn of t was stopped by the step limit
StepLimitExceeded(t) ==
    /\ pc[t] = "returned"
    /\ steps[t] = RecursionLimit
    /\ ~Completed(t)

\* C5: when a turn exceeds the step limit, run_agent returns the longest tool
\* result produced so far in that turn.
C5_BestEffortAnswer ==
    \A t \in Tasks :
        (StepLimitExceeded(t) /\ ToolTexts(t) # {}) =>
            (ret[t].kind = "text" /\ Longest(ToolTexts(t), ret[t].text))

Directives(ms) == {i \in 1..Len(ms) : isSystem(ms[i])}

\* C6: the stored message sequence of a conversation holds exactly one
\* system directive, at index 0.
C6_DirectiveSingleton ==
    \A c \in Chats : store[c] # <<>> => Directives(store[c]) = {1}

\* C6, amended: the stored message sequence of a conversation holds no system
\* directive; the sequence handed to the model holds exactly one, at index 0.
C6_DirectiveOnlyForModel ==
    /\ \A c \in Chats : Directives(store[c]) = {}
    /\ \A t \in Tasks : pc[t] = "llm" => Directives(ModelInput(msgs[t], now)) = {1}

\* C6, witness: a conversation with two stored turns, and a model call under
\* way on it.
C6_Witness ==
    \E t \in Tasks :
        /\ pc[t] = "llm"
        /\ steps[t] > 0
        /\ \E i \in 1..Len(store[upd[t].chat]) :
              store[upd[t].chat][i].content.turn # upd[t].turn

\* handler t has started app.ainvoke
Invoked(t) == pc[t] \in {"llm", "tools", "returned", "report", "document"} /\ msgs[t] # <<>>

\* C7: every message in the history of a conversation, every message handed
\* to the model for a turn, and the text run_agent returns for it, belongs to
\* that conversation.
C7_Isolation ==
    /\ \A c \in Chats : \A i \in 1..Len(store[c]) : store[c][i].content.chat = c
    /\ \A t \in Tasks :
          /\ \A i \in 1..Len(msgs[t]) : msgs[t][i].content.chat = upd[t].chat
          /\ (ret[t].kind = "text" /\ ret[t].text.turn # 0) =>
                ret[t].text.chat = upd[t].chat

\* C7, witness: turns of two conversations under way at the same time, one of
\* them with its answer returned.
C7_Witness ==
    \E t, s \in Tasks :
        /\ upd[t].chat # upd[s].chat
        /\ Invoked(t) /\ Invoked(s)
        /\ steps[s] > 0
        /\ pc[t] = "returned" /\ ret[t].text.turn = upd[t].turn

\* C8: run_agent never raises.
C8_NeverRaises ==
    \A t \in Tasks : ret[t].kind # "raise"

\* C9: the report file a handler is about to send, the report it sent, and
\* the audio file it downloaded are never those of a turn of another
\* conversation.
C9_NoSharedFiles ==
    \A t \in Tasks :
        /\ out[t].kind = "document" => out[t].text.chat = upd[t].chat
        /\ (pc[t] = "report" /\ reports[fname[t]] # Absent) =>
              reports[fname[t]].text.chat = upd[t].chat
        /\ (upd[t].kind = "voice" /\ Invoked(t) /\ tempAudio # NoUpdate) =>
              tempAudio.chat = upd[t].chat

\* C10: the messages of a turn whose graph has run to its end are all in the
\* stored history of its conversation, whatever a concurrent turn on the
\* same conversation checkpoints.
C10_NoLostAppend ==
    \A t \in Tasks :
        Completed(t) =>
            \A i \in 1..Len(msgs[t]) :
                msgs[t][i].content.turn = upd[t].turn =>
                    \E j \in 1..Len(store[upd[t].chat]) :
                        store[upd[t].chat][j] = msgs[t][i]

(* ======================= the claims, C11 to C20 ======================= *)

IsPrefix(s, r) == Len(s) <= Len(r) /\ SubSeq(r, 1, Len(s)) = s

\* the index of the HumanMessage that opened turn k in ms (0: there is none)
OpenedAt(ms, k) ==
    LET S == {i \in 1..Len(ms) : isHuman(ms[i]) /\ ms[i].content.turn = k}
    IN IF S = {} THEN 0 ELSE CHOOSE i \in S : \A j \in S : i <= j

\* ms ends with the transcript of the turn of update u: its user message,
\* then only messages the model and the tools produced in that turn, in the
\* order of the steps that produced them, and before it only older messages.
EndsWithTurn(ms, u) ==
    LET h == OpenedAt(ms, u.turn)
    IN /\ h > 0
       /\ ms[h] = HumanMessage(u.text)
       /\ \A i \in 1..(h - 1) : ms[i].content.turn < u.turn
       /\ \A i \in (h + 1)..Len(ms) :
             /\ ~isHuman(ms[i]) /\ ~isSystem(ms[i])
             /\ ms[i].content.turn = u.turn
             /\ \A j \in (h + 1)..(i - 1) :
                   \/ ms[j].id < ms[i].id
                   \/ ms[j].id = ms[i].id /\ ms[j].call < ms[i].call

C11_Extends == \A c \in Chats : IsPrefix(store[c], store'[c])

C11_TurnAppended ==
    \A t \in Tasks :
        Completed(t) =>
            /\ store[upd[t].chat] = msgs[t]
            /\ EndsWithTurn(msgs[t], upd[t])

\* C11: the stored history of a conversation only grows, every step leaving
\* what is stored as a prefix of what is stored next, and when a turn has
\* completed the history is the earlier messages followed by the turn's user
\* message and then its model and tool messages in the order produced.
C11_AppendOnly == []C11_TurnAppended /\ [][C11_Extends]_vars

\* C11, witness: the second turn of a conversation has completed after a
\* tool step.
C11_Witness ==
    \E t \in Tasks :
        /\ Completed(t)
        /\ OpenedAt(msgs[t], upd[t].turn) > 1
        /\ \E i \in 1..Len(msgs[t]) :
              msgs[t][i].type = "tool" /\ msgs[t][i].content.turn = upd[t].turn

\* the tool request that the history of handler t ends with has no result
Unanswered(t) ==
    /\ msgs[t] # <<>>
    /\ Last(msgs[t]).type = "ai"
    /\ Last(msgs[t]).calls > 0

\* C12: a failing tool call never aborts the turn: a turn whose model asked
\* for tools ends only after every call of the request got its tool-result
\* and the model was called again, unless the step limit stopped it.
C12_SiblingIsolation ==
    \A t \in Tasks :
        (pc[t] = "returned" /\ Unanswered(t)) => steps[t] = RecursionLimit

\* a model call starts: its persona is the one built at that moment
C13_BuiltForCall ==
    \A t \in Tasks :
        (pc'[t] = "llm" /\ pc[t] # "llm") =>
            (sent'[t] # <<>> /\ sent'[t][1] = SystemMessage(PersonaText, now'))

\* the messages of a model call under way: one persona, first, and after it
\* the messages of the conversation in their order
C13_OneDirectiveFirst ==
    \A t \in Tasks :
        pc[t] = "llm" =>
            /\ sent[t] # <<>>
            /\ isSystem(sent[t][1])
            /\ sent[t][1].content = PersonaText
            /\ sent[t][1].id <= now
            /\ Directives(sent[t]) = {1}
            /\ Tail(sent[t]) = (IF isSystem(msgs[t][1]) THEN Tail(msgs[t]) ELSE msgs[t])
            /\ msgs[t] = store[upd[t].chat]

\* C13: in every model call of every turn the messages given to the model
\* hold exactly one system directive, at index 0, built for that call with
\* the time of the call, written over a directive at the head of the state or
\* else prepended, and after it the conversation's messages in their order.
C13_PersonaFirst == []C13_OneDirectiveFirst /\ [][C13_BuiltForCall]_vars

\* C13, witness: the model is called again after a tool step, in a later
\* minute than the first turn of the conversation.
C13_Witness ==
    \E t \in Tasks :
        /\ pc[t] = "llm"
        /\ steps[t] = 2
        /\ sent[t][1].id > 0
        /\ OpenedAt(msgs[t], upd[t].turn) > 1

\* ms holds a tool request that lacks a result and is followed by a later
\* user or assistant message
Dangling(ms) ==
    \E i \in 1..Len(ms) :
        /\ ms[i].type = "ai" /\ ms[i].calls > 0
        /\ ~Answered(ms, i)
        /\ \E j \in (i + 1)..Len(ms) : ms[j].type \in {"human", "ai"}

\* ms ends with a tool request and then one result for each of its calls,
\* in their order, each tagged with the id of its call
EndsAnswered(ms) ==
    \E i \in 1..Len(ms) :
        /\ ms[i].type = "ai" /\ ms[i].calls > 0
        /\ i + ms[i].calls = Len(ms)
        /\ Answered(ms, i)

\* C14: when the model is called again after a tool request, the history
\* ends with that request followed by exactly one tagged result for each of
\* its calls, and no history, stored or handed to the model, holds a tool
\* request that lacks a result and is followed by a later user or assistant
\* message.
C14_ToolResultsComplete ==
    /\ \A t \in Tasks :
          /\ (pc[t] = "llm" /\ steps[t] > 0) => EndsAnswered(msgs[t])
          /\ pc[t] = "llm" => ~Dangling(Tail(sent[t]))
    /\ \A c \in Chats : ~Dangling(store[c])

\* DONE: app.ainvoke of handler t returned a final state, so that run_agent
\* returned a text selected from it and not the text of an exception
Done(t) == pc[t] = "returned" /\ ret[t] # Returned(ExceptionText)

\* the turn of t is stopped: run_agent returned the text of an exception
Stopped(t) == pc[t] = "returned" /\ ret[t] = Returned(ExceptionText)

\* the model call of t returns a response in this step
Responds(t) == pc[t] = "llm" /\ Len(msgs'[t]) = Len(msgs[t]) + 1

\* a turn starts with a model call
C15_StartsWithModel ==
    \A t \in Tasks :
        (pc[t] = "typing" /\ msgs'[t] # <<>>) =>
            (pc'[t] = "llm" /\ isHuman(Last(msgs'[t])))

\* the tools step starts only right after a model response with a tool call
C15_ToolsOnlyIfRequested ==
    \A t \in Tasks :
        (pc'[t] = "tools" /\ pc[t] # "tools") =>
            (Responds(t) /\ Last(msgs'[t]).type = "ai" /\ Last(msgs'[t]).calls > 0)

\* a model response with a tool call starts the tools step
C15_ToolsIfRequested ==
    \A t \in Tasks :
        (Responds(t) /\ Last(msgs'[t]).calls > 0) => pc'[t] = "tools"

\* ... unless the step limit stops the turn
C15_ToolsIfRequestedAndAllowed ==
    \A t \in Tasks :
        (Responds(t) /\ Last(msgs'[t]).calls > 0) =>
            \/ pc'[t] = "tools"
            \/ steps'[t] = RecursionLimit /\ Stopped(t)'

\* a tools step is followed by a model call
C15_ModelAfterTools ==
    \A t \in Tasks :
        (pc[t] = "tools" /\ pc'[t] # "tools") => pc'[t] = "llm"

\* ... unless the turn is stopped in it
C15_ModelAfterToolsOrStopped ==
    \A t \in Tasks :
        (pc[t] = "tools" /\ pc'[t] # "tools") => (pc'[t] = "llm" \/ Stopped(t)')

\* a model call is made only at the start of a turn or after a tools step
C15_ModelOnlyAfter ==
    \A t \in Tasks :
        (pc'[t] = "llm" /\ pc[t] # "llm") => pc[t] \in {"typing", "tools"}

\* DONE is reached only by a model response without tool calls
C15_DoneOnlyAfterFinal ==
    \A t \in Tasks :
        (Done(t)' /\ ~Done(t)) =>
            (Responds(t) /\ Last(msgs'[t]).type = "ai" /\ Last(msgs'[t]).calls = 0)

RequestedByModel(c) ==
    \E ch \in Chats : \E i \in 1..Len(store[ch]) :
        /\ store[ch][i].type = "ai"
        /\ store[ch][i].content.turn = c[1]
        /\ store[ch][i].id = c[2]
        /\ c[3] \in 1..store[ch][i].calls

\* C16: the handler of a tool call is run at most once, whether it fails or
\* not, and only for a call that a model response requested.
C16_AtMostOnce ==
    \A c \in DOMAIN ran : ran[c] = 1 /\ RequestedByModel(c)

\* C16, witness: a tools step failed, run_agent returned, and each call of
\* the failed request has run.
C16_Witness ==
    \E t \in Tasks :
        /\ Stopped(t)
        /\ Unanswered(t)
        /\ steps[t] < RecursionLimit
        /\ Last(msgs[t]).calls > 1
        /\ \A c \in Calls(upd[t], Last(msgs[t])) : c \in DOMAIN ran

\* the turn of t was stopped by a failure of its model call, made with a
\* history the endpoint accepts: the service was unavailable
ModelUnavailable(t) ==
    /\ Stopped(t)
    /\ msgs[t] # <<>>
    /\ Last(msgs[t]).type \in {"human", "tool"}
    /\ steps[t] < RecursionLimit
    /\ Acceptable(msgs[t])

\* C17: a turn fails on an unavailable model only after the model call was
\* retried at least once: a single transient failure does not end the turn.
C17_TransientRetried ==
    \A t \in Tasks : ModelUnavailable(t) => tries[t] > 1

\* the gatekeeper lets a message of user c through (main.py:63), and user c
\* is recorded as waiting for the code (main.py:67)
Authenticated(c) == check_auth_status(TextUpdate(c, CodeMinLen, 0)) = "authorized"
AwaitingCode(c) == c \in AUTH_STATE

\* handler t ends the code exchange of user c in this step
ExchangesCode(t, c) ==
    pc[t] = "verifying" /\ upd[t].chat = c /\ pc'[t] # "verifying"

\* a user becomes Authenticated only by a code exchange of their own, and
\* only a handler at the gatekeeper, never one inside app.ainvoke, changes
\* who is Authenticated or recorded as waiting
C18_OwnExchange ==
    /\ \A c \in Chats :
          (~Authenticated(c) /\ Authenticated(c)') => \E t \in Tasks : ExchangesCode(t, c)
    /\ \A t \in Tasks :
          (pc[t] \in {"llm", "tools"} /\ pc'[t] # pc[t]) =>
              (token' = token /\ AUTH_STATE' = AUTH_STATE)

\* no user is both Authenticated and recorded as waiting for the code
C18_OneStatus == \A c \in Chats : ~(Authenticated(c) /\ AwaitingCode(c))

\* C18: authentication state is per user: each user is in exactly one of
\* Unauthenticated, AwaitingCode and Authenticated, a code exchange
\* completed by one user does not make another user Authenticated, and no
\* step of the loop changes the authentication state.
C18_PerUserAuth == []C18_OneStatus /\ [][C18_OwnExchange]_vars

\* what the gatekeeper tells a user whose message it does not let through
Refusals == {"login_prompt", "not_a_code", "auth_failed", "no_credentials"}

\* handler t is past the gatekeeper: in its voice logic, in run_agent or in
\* send_smart_response
PastGate(t) ==
    \/ pc[t] \in {"download", "typing", "llm", "tools", "returned", "report",
                  "document", "cleanup"}
    \/ msgs[t] # <<>>
    \/ ret[t] # None

\* a handler past the gatekeeper finds token.json written and was not
\* refused; a refused handler never started run_agent
C19_Gate ==
    \A t \in Tasks :
        /\ PastGate(t) => (token /\ out[t].kind \notin Refusals)
        /\ out[t].kind \in Refusals =>
              (pc[t] = "done" /\ msgs[t] = <<>> /\ ret[t] = None /\ tries[t] = 0)

\* a handler passes the gatekeeper only with token.json there at the check
\* or just written by the exchange of the code its update carried
C19_Enter ==
    \A t \in Tasks :
        (~PastGate(t) /\ PastGate(t)') =>
            \/ pc[t] = "idle" /\ token /\ token'
            \/ /\ pc[t] = "verifying" /\ token'
               /\ upd[t].kind = "text" /\ upd[t].len >= CodeMinLen
               /\ upd[t].chat \in AUTH_STATE /\ upd[t].chat \notin AUTH_STATE'

\* C19: run_agent is invoked for a message only after check_auth_status
\* returned True for it, with token.json there at the check or just written
\* by a successful code exchange; a message that starts the login flow or is
\* rejected as a code never reaches the agent.
C19_AuthGate == []C19_Gate /\ [][C19_Enter]_vars

\* C19, witness: the model is being called for the message whose code
\* exchange has just succeeded, after the message that started the login
\* flow was refused without a turn.
C19_Witness ==
    \E t \in Tasks :
        /\ pc[t] = "llm"
        /\ out[t].kind = "connected"
        /\ upd[t].turn = 2
        /\ \A c \in Chats : \A i \in 1..Len(store[c]) : store[c][i].content.turn = 2

\* the text of the update of handler t is a message of ms
CarriedBy(ms, t) ==
    \E i \in 1..Len(ms) : isHuman(ms[i]) /\ ms[i].content = upd[t].text

\* the handler of the message whose code was exchanged successfully ends
\* with the gatekeeper
C20_EndsAtGate ==
    \A t \in Tasks : pc[t] = "verifying" => pc'[t] \in {"verifying", "done"}

\* the text of that message is in no graph state, model input or history
C20_NotATurn ==
    \A t \in Tasks :
        out[t].kind = "connected" =>
            /\ ~CarriedBy(msgs[t], t)
            /\ ~CarriedBy(sent[t], t)
            /\ ~CarriedBy(store[upd[t].chat], t)

\* C20: the message that completes a successful code exchange is consumed
\* by the gatekeeper only: it is not passed to run_agent, sent to the model
\* or appended to the history of the conversation.
C20_CodeConsumed == []C20_NotATurn /\ [][C20_EndsAtGate]_vars

(* ======================= the claims, C21 to C22 ======================= *)

\* handler t refuses its update in this step, telling the user `why`
Refuses(t, why) == out[t].kind # why /\ out'[t].kind = why

\* a user recorded as waiting who sends a text that is too short for a code,
\* or a code whose exchange fails, stays recorded and no token is written
C21_StaysWaiting ==
    \A t \in Tasks :
        (Refuses(t, "not_a_code") \/ Refuses(t, "auth_failed")) =>
            /\ upd'[t].chat \in AUTH_STATE
            /\ AUTH_STATE' = AUTH_STATE
            /\ token' = token

\* a user leaves AUTH_STATE only by a successful exchange of their own code,
\* which writes the token
C21_LeavesByExchange ==
    \A c \in Chats :
        (c \in AUTH_STATE /\ c \notin AUTH_STATE') =>
            (token' /\ \E t \in Tasks : ExchangesCode(t, c) /\ upd[t].len >= CodeMinLen)

\* no user is recorded as waiting once the token exists
C21_NoneWaitingWithToken == token => AUTH_STATE = {}

\* C21: a user recorded as WAITING_FOR_CODE stays so after a text shorter
\* than 10 characters or a code whose exchange fails, no token being
\* written, and leaves that state only through a successful exchange, which
\* writes the token and removes the user's entry; no user remains recorded
\* as WAITING_FOR_CODE once the token exists.
C21_Handshake ==
    []C21_NoneWaitingWithToken /\ [][C21_StaysWaiting /\ C21_LeavesByExchange]_vars

\* the memories saved with user_id u that are about the query
OwnMemories(u, query) == {r.content : r \in {x \in memories : x.user_id = u /\ x.content = query}}

\* a search returns what the user saved about the query
C22_SearchesQuery ==
    found.via # "none" =>
        found.result = (IF OwnMemories(found.user, found.query) = {}
                        THEN NoneFound
                        ELSE Rows(OwnMemories(found.user, found.query)))

\* a search returns no memory that the user did not save
C22_OnlyOwn ==
    found.via # "none" =>
        \A text \in found.result.rows : Row(found.user, text) \in memories

\* C22: search_memory called with a user_id and a query searches for that
\* query and returns only memories that were saved with the same user_id: a
\* memory saved under user A is never returned to a search made for user B.
C22_MemoryIsolation == C22_SearchesQuery /\ C22_OnlyOwn

====
